---- MODULE Spec2Model ----
(***************************************************************************)
(* Model of the multiple-entry visa calculator (src/src/main.rs).          *)
(*                                                                         *)
(* A NaiveDate is modelled by its day number (an integer): chrono orders   *)
(* dates by day, `b - a` is the difference of the day numbers and          *)
(* `date - Days::new(n)` subtracts n from the day number.                  *)
(*                                                                         *)
(* A Result<T> is the record [tag, v, msg]: tag is "Ok" (v is the value)   *)
(* or "Err" (msg is the anyhow message).                                   *)
(*                                                                         *)
(* Three specifications share the operators that model the functions:      *)
(*   Spec      main(), one step per statement of the pipeline;             *)
(*   SpecBuild sort_and_dedup_dates, DateIntervalVec::from_dates and       *)
(*             num_spent_days applied to every bounded date list and       *)
(*             every valid control period;                                 *)
(*   SpecClip  start_no_earlier / end_no_later applied in any order to     *)
(*             every valid interval.                                       *)
(***************************************************************************)
EXTENDS Integers, Sequences, FiniteSets

VARIABLES
    pc,              \* position in main() / in the harness of the unit
    cli,             \* Cli { end, period, allowed } (file is I/O glue)
    input,           \* the dates read from the file or stdin, in input order
    control_period,  \* DateInterval, the control window
    dates,           \* Vec<NaiveDate> `dates`
    num_dups,        \* num_dups of the last sort_and_dedup_dates call
    norm_calls,      \* how many times sort_and_dedup_dates ran on `dates`
    prev_dates,      \* `dates` before the last sort_and_dedup_dates call
    date_intervals,  \* Result<DateIntervalVec> of from_dates
    num_spent_days,  \* usize num_spent_days
    verdict,         \* the text chosen at main.rs:191-195
    di,              \* the DateInterval being clipped (SpecClip)
    di0,             \* that interval as constructed
    diPrev,          \* that interval before the last clipping call
    lastOp,          \* the last clipping call
    lastD            \* its argument d

vars == <<pc, cli, input, control_period, dates, num_dups, norm_calls, prev_dates,
          date_intervals, num_spent_days, verdict, di, di0, diPrev, lastOp, lastD>>

----------------------------------------------------------------------------
(* Program constants *)

CONTROL_PERIOD_DAYS == 180

ALLOWED_DAYS == 90

\* `let control_period = Days::new(180);` in main
control_period_days == 180

(* Bounds of the model *)

\* day numbers 0..MaxDay are the dates of SpecBuild and SpecClip
MaxDay == 3

\* longest date list
MaxLen == 4

----------------------------------------------------------------------------
(* Result<T> *)

Ok(x) == [tag |-> "Ok", v |-> x, msg |-> ""]

Err(m) == [tag |-> "Err", v |-> <<>>, msg |-> m]

NoResult == [tag |-> "none", v |-> <<>>, msg |-> ""]

NoInterval == [a |-> 0, b |-> 0]

----------------------------------------------------------------------------
(* impl DateInterval *)

DateInterval_new(a, b) ==
    IF a > b
    THEN Err("End date is before the start date")
    ELSE Ok([a |-> a, b |-> b])

\* faulty variant: the exclusive length
abs_num_days_exclusive(self) == self.b - self.a

\* (b - a).num_days() as usize + 1; the cast is of a value >= 0 for every
\* interval made by DateInterval_new and narrowed by the two clipping calls
abs_num_days(self) == (self.b - self.a) + 1

\* faulty variant: the test `d <= self.b` is missing
start_no_earlier_unchecked(self, d) ==
    IF self.a < d THEN [self EXCEPT !.a = d] ELSE self

\* faulty variant: the start moves one day towards d instead of to d
start_no_earlier_one_day(self, d) ==
    IF self.a < d /\ d <= self.b THEN [self EXCEPT !.a = self.a + 1] ELSE self

start_no_earlier(self, d) ==
    IF self.a < d /\ d <= self.b THEN [self EXCEPT !.a = d] ELSE self

\* faulty variant: `self.a < d` for `self.a <= d`
end_no_later_strict(self, d) ==
    IF self.a < d /\ d < self.b THEN [self EXCEPT !.b = d] ELSE self

end_no_later(self, d) ==
    IF self.a <= d /\ d < self.b THEN [self EXCEPT !.b = d] ELSE self

overlaps(self, other) == self.a <= other.b /\ other.a <= self.b

----------------------------------------------------------------------------
(* impl DateIntervalVec *)

\* The loop of from_dates. `dates.iter().tuples()` yields the i-th pair
\* (dates[2i-1], dates[2i]) (1-based) while two elements remain, and ends
\* when fewer than two are left; `?` returns the first error.
RECURSIVE from_dates_loop(_, _, _, _)
from_dates_loop(ds, cp, i, acc) ==
    IF 2 * i > Len(ds)
    THEN Ok(acc)
    ELSE LET r == DateInterval_new(ds[2 * i - 1], ds[2 * i])
         IN  IF r.tag = "Err"
             THEN Err(r.msg)
             ELSE IF overlaps(r.v, cp)
                  THEN from_dates_loop(ds, cp, i + 1,
                           Append(acc, end_no_later(start_no_earlier(r.v, cp.a), cp.b)))
                  ELSE from_dates_loop(ds, cp, i + 1, acc)

from_dates(ds, cp) == from_dates_loop(ds, cp, 1, <<>>)

RECURSIVE sum_abs_num_days(_)
sum_abs_num_days(v) ==
    IF v = <<>> THEN 0 ELSE abs_num_days(Head(v)) + sum_abs_num_days(Tail(v))

DateIntervalVec_num_spent_days(v) == sum_abs_num_days(v)

----------------------------------------------------------------------------
(* sort_and_dedup_dates *)

\* Vec::sort on a totally ordered type: insertion of each element in turn
RECURSIVE insert_sorted(_, _)
insert_sorted(x, s) ==
    IF s = <<>> THEN <<x>>
    ELSE IF x < Head(s) THEN <<x>> \o s
    ELSE <<Head(s)>> \o insert_sorted(x, Tail(s))

RECURSIVE insert_sorted_desc(_, _)
insert_sorted_desc(x, s) ==
    IF s = <<>> THEN <<x>>
    ELSE IF x > Head(s) THEN <<x>> \o s
    ELSE <<Head(s)>> \o insert_sorted_desc(x, Tail(s))

\* faulty variant: the comparison reversed
RECURSIVE sort_desc(_)
sort_desc(s) ==
    IF s = <<>> THEN <<>> ELSE insert_sorted_desc(Head(s), sort_desc(Tail(s)))

RECURSIVE sort(_)
sort(s) == IF s = <<>> THEN <<>> ELSE insert_sorted(Head(s), sort(Tail(s)))

\* faulty variant: nothing is removed
dedup_noop(s) == s

\* Vec::dedup: of each run of equal consecutive elements the first is kept
RECURSIVE dedup(_)
dedup(s) ==
    IF Len(s) <= 1 THEN s
    ELSE IF s[1] = s[2] THEN dedup(Tail(s))
    ELSE <<s[1]>> \o dedup(Tail(s))

\* faulty variant: the list is not sorted before dedup
sort_and_dedup_dates_unsorted(ds) ==
    LET deduped == dedup(ds)
    IN  [dates |-> deduped, num_dups |-> Len(ds) - Len(deduped)]

\* the list left in `dates` and num_dups (the warning is printed iff num_dups > 0)
sort_and_dedup_dates(ds) ==
    LET sorted == sort(ds)
        num_dates == Len(sorted)
        deduped == dedup(sorted)
    IN  [dates |-> deduped, num_dups |-> num_dates - Len(deduped)]

----------------------------------------------------------------------------
(* main *)

\* main.rs:158-170: the period is the literal 180, cli.period is not read
main_control_period(c) ==
    DateInterval_new(c.end - control_period_days, c.end)

\* faulty variant: `>=` for `>`
main_verdict_ge(spent, allowed) ==
    IF spent >= allowed THEN "exceed" ELSE "are within"

\* main.rs:191-195
main_verdict(spent, allowed) ==
    IF spent > allowed THEN "exceed" ELSE "are within"

----------------------------------------------------------------------------
(* Inputs *)

\* longest run of sort_and_dedup_dates calls on one list in SpecBuild
MaxNormCalls == 2

Dates == 0 .. MaxDay

\* every Vec<NaiveDate> of at most MaxLen dates over D
DateLists(D) == UNION {[1 .. n -> D] : n \in 0 .. MaxLen}

\* every DateInterval that DateInterval::new returns over D
ValidIntervals(D) ==
    {DateInterval_new(a, b).v : <<a, b>> \in {p \in D \X D : DateInterval_new(p[1], p[2]).tag = "Ok"}}

\* reference end dates of the run (--end, or today)
Ends == {200, 201}

\* the dates of the run's input: around both ends of the control window
RunDates == UNION {{e - control_period_days - 1, e - control_period_days, e, e + 1} : e \in Ends}

\* --period and --allowed (usize); the defaults are the two constants
Periods == {CONTROL_PERIOD_DAYS, CONTROL_PERIOD_DAYS \div 2}

Alloweds == {1, 2, ALLOWED_DAYS}

Clis == [end : Ends, period : Periods, allowed : Alloweds]

NoCli == [end |-> 0, period |-> CONTROL_PERIOD_DAYS, allowed |-> ALLOWED_DAYS]

----------------------------------------------------------------------------
(* Spec: main() *)

Init ==
    /\ pc = "start"
    /\ cli \in Clis
    /\ input \in DateLists(RunDates)
    /\ control_period = NoInterval
    /\ dates = <<>>
    /\ num_dups = 0
    /\ norm_calls = 0
    /\ prev_dates = <<>>
    /\ date_intervals = NoResult
    /\ num_spent_days = 0
    /\ verdict = ""
    /\ di = NoInterval /\ di0 = NoInterval /\ diPrev = NoInterval
    /\ lastOp = "none" /\ lastD = 0

\* main.rs:158-172; DateInterval::new(start_date, end_date)? fails the run on Err
MakeControlPeriod ==
    /\ pc = "start"
    /\ LET r == main_control_period(cli)
       IN  IF r.tag = "Ok"
           THEN control_period' = r.v /\ pc' = "window"
           ELSE control_period' = control_period /\ pc' = "failed"
    /\ UNCHANGED <<cli, input, dates, num_dups, norm_calls, prev_dates, date_intervals,
                   num_spent_days, verdict, di, di0, diPrev, lastOp, lastD>>

\* main.rs:174-180; the lines of the input are dates in DATE_FMT
ParseDates ==
    /\ pc = "window"
    /\ dates' = input
    /\ pc' = "parsed"
    /\ UNCHANGED <<cli, input, control_period, num_dups, norm_calls, prev_dates, date_intervals,
                   num_spent_days, verdict, di, di0, diPrev, lastOp, lastD>>

\* main.rs:182
SortAndDedup ==
    /\ pc = "parsed"
    /\ LET r == sort_and_dedup_dates(dates)
       IN  dates' = r.dates /\ num_dups' = r.num_dups
    /\ norm_calls' = norm_calls + 1
    /\ prev_dates' = dates
    /\ pc' = "normalized"
    /\ UNCHANGED <<cli, input, control_period, date_intervals,
                   num_spent_days, verdict, di, di0, diPrev, lastOp, lastD>>

\* main.rs:184-185; `?` ends the run on Err
FromDates ==
    /\ pc = "normalized"
    /\ date_intervals' = from_dates(dates, control_period)
    /\ pc' = IF date_intervals'.tag = "Ok" THEN "built" ELSE "failed"
    /\ UNCHANGED <<cli, input, control_period, dates, num_dups, norm_calls, prev_dates,
                   num_spent_days, verdict, di, di0, diPrev, lastOp, lastD>>

\* main.rs:187-188
NumSpentDays ==
    /\ pc = "built"
    /\ num_spent_days' = DateIntervalVec_num_spent_days(date_intervals.v)
    /\ pc' = "summed"
    /\ UNCHANGED <<cli, input, control_period, dates, num_dups, norm_calls, prev_dates,
                   date_intervals, verdict, di, di0, diPrev, lastOp, lastD>>

\* main.rs:189-198
PrintVerdict ==
    /\ pc = "summed"
    /\ verdict' = main_verdict(num_spent_days, cli.allowed)
    /\ pc' = "done"
    /\ UNCHANGED <<cli, input, control_period, dates, num_dups, norm_calls, prev_dates,
                   date_intervals, num_spent_days, di, di0, diPrev, lastOp, lastD>>

Next ==
    \/ MakeControlPeriod
    \/ ParseDates
    \/ SortAndDedup
    \/ FromDates
    \/ NumSpentDays
    \/ PrintVerdict

Spec == Init /\ [][Next]_vars

----------------------------------------------------------------------------
(* SpecBuild: the functions of the pipeline on every list and window *)

BuildInit ==
    /\ pc = "raw"
    /\ cli = NoCli
    /\ input \in DateLists(Dates)
    /\ control_period \in ValidIntervals(Dates)
    /\ dates = input
    /\ num_dups = 0
    /\ norm_calls = 0
    /\ prev_dates = <<>>
    /\ date_intervals = NoResult
    /\ num_spent_days = 0
    /\ verdict = ""
    /\ di = NoInterval /\ di0 = NoInterval /\ diPrev = NoInterval
    /\ lastOp = "none" /\ lastD = 0

\* sort_and_dedup_dates(&mut dates), on a raw list or on its own output
BuildNormalize ==
    /\ pc \in {"raw", "normalized"}
    /\ norm_calls < MaxNormCalls
    /\ LET r == sort_and_dedup_dates(dates)
       IN  dates' = r.dates /\ num_dups' = r.num_dups
    /\ norm_calls' = norm_calls + 1
    /\ prev_dates' = dates
    /\ pc' = "normalized"
    /\ UNCHANGED <<cli, input, control_period, date_intervals,
                   num_spent_days, verdict, di, di0, diPrev, lastOp, lastD>>

\* DateIntervalVec::from_dates(&dates, control_period)
BuildFromDates ==
    /\ pc \in {"raw", "normalized"}
    /\ date_intervals' = from_dates(dates, control_period)
    /\ pc' = "built"
    /\ UNCHANGED <<cli, input, control_period, dates, num_dups, norm_calls, prev_dates,
                   num_spent_days, verdict, di, di0, diPrev, lastOp, lastD>>

\* date_intervals.num_spent_days()
BuildNumSpentDays ==
    /\ pc = "built"
    /\ date_intervals.tag = "Ok"
    /\ num_spent_days' = DateIntervalVec_num_spent_days(date_intervals.v)
    /\ pc' = "summed"
    /\ UNCHANGED <<cli, input, control_period, dates, num_dups, norm_calls, prev_dates,
                   date_intervals, verdict, di, di0, diPrev, lastOp, lastD>>

BuildNext ==
    \/ BuildNormalize
    \/ BuildFromDates
    \/ BuildNumSpentDays

SpecBuild == BuildInit /\ [][BuildNext]_vars

----------------------------------------------------------------------------
(* SpecClip: the two clipping calls on every valid interval *)

ClipInit ==
    /\ pc = "clip"
    /\ cli = NoCli
    /\ input = <<>>
    /\ control_period = NoInterval
    /\ dates = <<>>
    /\ num_dups = 0
    /\ norm_calls = 0
    /\ prev_dates = <<>>
    /\ date_intervals = NoResult
    /\ num_spent_days = 0
    /\ verdict = ""
    /\ di \in ValidIntervals(Dates)
    /\ di0 = di
    /\ diPrev = di
    /\ lastOp = "none"
    /\ lastD = 0

\* di.start_no_earlier(d)
StartNoEarlier ==
    /\ pc = "clip"
    /\ \E d \in Dates :
          /\ di' = start_no_earlier(di, d)
          /\ lastD' = d
    /\ diPrev' = di
    /\ lastOp' = "start_no_earlier"
    /\ UNCHANGED <<pc, cli, input, control_period, dates, num_dups, norm_calls, prev_dates,
                   date_intervals, num_spent_days, verdict, di0>>

\* di.end_no_later(d)
EndNoLater ==
    /\ pc = "clip"
    /\ \E d \in Dates :
          /\ di' = end_no_later(di, d)
          /\ lastD' = d
    /\ diPrev' = di
    /\ lastOp' = "end_no_later"
    /\ UNCHANGED <<pc, cli, input, control_period, dates, num_dups, norm_calls, prev_dates,
                   date_intervals, num_spent_days, verdict, di0>>

ClipNext ==
    \/ StartNoEarlier
    \/ EndNoLater

SpecClip == ClipInit /\ [][ClipNext]_vars

----------------------------------------------------------------------------
(* Vocabulary of the properties *)

StrictlyAscending(s) == \A i \in 1 .. Len(s) - 1 : s[i] < s[i + 1]

\* the entry/exit pairs of a date list, a trailing unpaired date left out
PairsOf(s) == [i \in 1 .. (Len(s) \div 2) |-> [a |-> s[2 * i - 1], b |-> s[2 * i]]]

HasReversedPair(s) == \E i \in DOMAIN PairsOf(s) : PairsOf(s)[i].a > PairsOf(s)[i].b

AllPairsValid(s) == Len(s) % 2 = 0 /\ ~HasReversedPair(s)

Outside(p, w) == p.b < w.a \/ p.a > w.b

MaxOf(x, y) == IF x >= y THEN x ELSE y

MinOf(x, y) == IF x <= y THEN x ELSE y

Intersection(p, w) == [a |-> MaxOf(p.a, w.a), b |-> MinOf(p.b, w.b)]

\* in input order, the intersection with w of every pair not outside w
ExpectedIntervals(s, w) ==
    LET kept == SelectSeq(PairsOf(s), LAMBDA p : ~Outside(p, w))
    IN  [i \in 1 .. Len(kept) |-> Intersection(kept[i], w)]

\* the pair shares exactly one day with w
TouchesOnce(p, w) == (p.b = w.a /\ p.a < w.a) \/ (p.a = w.b /\ p.b > w.b)

\* position in the output of the i-th pair, when it is kept
KeptIndex(s, w, i) == Cardinality({j \in 1 .. i : ~Outside(PairsOf(s)[j], w)})

RECURSIVE InclusiveTotal(_)
InclusiveTotal(v) ==
    IF v = <<>> THEN 0 ELSE (Head(v).b - Head(v).a) + 1 + InclusiveTotal(Tail(v))

\* the days of w that lie in some pair of s
CoveredDays(s, w) ==
    {d \in w.a .. w.b : \E i \in DOMAIN PairsOf(s) : PairsOf(s)[i].a <= d /\ d <= PairsOf(s)[i].b}

Built == pc \in {"built", "summed"}

----------------------------------------------------------------------------
(* Properties *)

\* C1: on every normalized (strictly ascending) date list of odd length and
\* every control window, from_dates returns an error, never a collection.
C1_OddLengthFails ==
    (Built /\ StrictlyAscending(dates) /\ Len(dates) % 2 = 1)
        => date_intervals.tag = "Err"

\* C2 as stated: a run whose raw input holds a reversed pair ends with the
\* interval-validation error and yields no collection and no total.
C2_ReversedRunFails ==
    (HasReversedPair(input) /\ pc \notin {"start", "window", "parsed", "normalized"})
        => (pc = "failed" /\ date_intervals.tag = "Err")

\* C2 as amended: a run whose raw input holds a reversed pair sorts the dates
\* before pairing them, so from_dates is handed no reversed pair, returns a
\* collection and the run goes on to the total and the verdict.
C2_ReversedRunIsSorted ==
    (HasReversedPair(input) /\ pc \notin {"start", "window", "parsed"})
        => /\ StrictlyAscending(dates)
           /\ {dates[i] : i \in DOMAIN dates} = {input[i] : i \in DOMAIN input}
           /\ pc # "failed"
           /\ pc # "normalized" => date_intervals.tag = "Ok"

C2_Witness ==
    /\ pc = "done"
    /\ HasReversedPair(input)
    /\ date_intervals.tag = "Ok"
    /\ date_intervals.v # <<>>

\* C3: the control window of the run is [end - period, end] for the period
\* given on the command line.
C3_WindowUsesPeriod ==
    pc # "start" => control_period = [a |-> cli.end - cli.period, b |-> cli.end]

\* C4: on an even-length list whose pairs all have a <= b, from_dates returns,
\* in input order, the intersection with the window of every pair that
\* overlaps it, and nothing for a pair outside the window.
C4_KeptAreIntersections ==
    (Built /\ AllPairsValid(dates))
        => date_intervals = Ok(ExpectedIntervals(dates, control_period))

C4_Witness ==
    /\ pc = "built"
    /\ AllPairsValid(dates)
    /\ ~StrictlyAscending(dates)
    /\ Len(dates) = 4
    /\ date_intervals.tag = "Ok"
    /\ Len(date_intervals.v) = 1
    /\ \A i \in DOMAIN PairsOf(dates) : PairsOf(dates)[i] # date_intervals.v[1]

\* C5: a stay that shares exactly one day with the window is kept, and its
\* clipped interval is that one day: abs_num_days is 1.
C5_TouchingStayIsOneDay ==
    (Built /\ AllPairsValid(dates))
        => \A i \in DOMAIN PairsOf(dates) :
              TouchesOnce(PairsOf(dates)[i], control_period)
                  => LET k == KeptIndex(dates, control_period, i)
                         shared == IF PairsOf(dates)[i].b = control_period.a
                                   THEN control_period.a ELSE control_period.b
                     IN  /\ date_intervals.tag = "Ok"
                         /\ k \in 1 .. Len(date_intervals.v)
                         /\ date_intervals.v[k] = [a |-> shared, b |-> shared]
                         /\ abs_num_days(date_intervals.v[k]) = 1

C5_Witness ==
    /\ pc = "built"
    /\ AllPairsValid(dates)
    /\ \E i, j \in DOMAIN PairsOf(dates) :
          /\ PairsOf(dates)[i].b = control_period.a /\ PairsOf(dates)[i].a < control_period.a
          /\ PairsOf(dates)[j].a = control_period.b /\ PairsOf(dates)[j].b > control_period.b
    /\ Len(date_intervals.v) = 2

\* C6: after any sequence of start_no_earlier / end_no_later calls the
\* interval [a', b'] satisfies a <= a' <= b' <= b for the interval [a, b]
\* it was constructed as.
C6_ClippingNarrows ==
    pc = "clip" => (di0.a <= di.a /\ di.a <= di.b /\ di.b <= di0.b)

C6_Witness ==
    /\ pc = "clip"
    /\ di0.a < di.a
    /\ di.b < di0.b

\* C7: a second start_no_earlier(d) (end_no_later(d)) with the same d leaves
\* the interval as the first call left it.
C7_ClippingIdempotent ==
    /\ lastOp = "start_no_earlier" => start_no_earlier(di, lastD) = di
    /\ lastOp = "end_no_later" => end_no_later(di, lastD) = di

C7_Witness ==
    /\ lastOp = "end_no_later"
    /\ di # diPrev
    /\ di.a # di0.a

\* C8: sort_and_dedup_dates leaves a strictly ascending list no longer than
\* its input; a further call on that list leaves it unchanged and counts
\* zero duplicates.
C8_NormalizeIdempotent ==
    /\ norm_calls >= 1 =>
          /\ StrictlyAscending(dates)
          /\ Len(dates) <= Len(input)
          /\ num_dups = Len(prev_dates) - Len(dates)
    /\ norm_calls >= 2 => (dates = prev_dates /\ num_dups = 0)

C8_Witness ==
    /\ pc = "normalized"
    /\ norm_calls = 2
    /\ Len(dates) >= 2
    /\ Len(dates) < Len(input)
    /\ ~StrictlyAscending(dedup(input))

\* C9: the verdict is "exceed" iff the sum of (b - a) + 1 over the kept
\* intervals is greater than the allowed number; an equal total is within.
C9_VerdictIsStrict ==
    pc = "done" =>
        /\ verdict \in {"exceed", "are within"}
        /\ verdict = "exceed" <=> InclusiveTotal(date_intervals.v) > cli.allowed

C9_Witness ==
    /\ pc = "done"
    /\ Len(date_intervals.v) = 2
    /\ InclusiveTotal(date_intervals.v) = cli.allowed
    /\ verdict = "are within"

\* C10: after sort_and_dedup_dates, the intervals from_dates keeps are each
\* inside the window, strictly ascending and pairwise disjoint; num_spent_days
\* is the number of window days inside some stay and is at most the window's
\* inclusive length.
C10_NoDayCountedTwice ==
    (Built /\ norm_calls >= 1 /\ date_intervals.tag = "Ok")
        => LET v == date_intervals.v
               w == control_period
           IN  /\ \A i \in DOMAIN v : w.a <= v[i].a /\ v[i].a <= v[i].b /\ v[i].b <= w.b
               /\ \A i \in 1 .. Len(v) - 1 : v[i].b < v[i + 1].a
               /\ pc = "summed" =>
                     /\ num_spent_days = Cardinality(CoveredDays(dates, w))
                     /\ num_spent_days <= (w.b - w.a) + 1

C10_Witness ==
    /\ pc = "summed"
    /\ norm_calls = 1
    /\ input # dates
    /\ Len(date_intervals.v) = 2
    /\ \E i \in DOMAIN PairsOf(dates) : PairsOf(dates)[i] # date_intervals.v[i]
    /\ num_spent_days = (control_period.b - control_period.a) + 1

====
